---------------------------- MODULE Spec2Model ----------------------------
(***************************************************************************)
(* A model of RNN_vs_LSTM.py: the corpus loader, the character encoder,    *)
(* the RNN and LSTM training loops, the confusion matrix and top-k         *)
(* prediction.                                                             *)
(*                                                                         *)
(* Strings are sequences of characters; a character is a TLA+ string: an   *)
(* ASCII character stands for itself, every other code point has a name    *)
(* ("a_grave" is U+00E0, "acute" is the combining mark U+0301, "LF" is     *)
(* the line feed).  Python indices are 0-based; a TLA+ sequence position   *)
(* p holds the element of Python index p - 1.                              *)
(*                                                                         *)
(* Floats are modelled by integers (log-probabilities, logits, losses)     *)
(* and by exact fractions <<num, den>> where the script divides.           *)
(***************************************************************************)
EXTENDS Integers, Sequences, FiniteSets, TLC

\* ------------------------------------------------------------------ bounds

\* Longest string handed to the encoder specification.
MaxLen == 3

\* Largest n_predictions tried.
MaxK == 3

\* The script's loop lengths (100000, 1000 and 10000 in the source), cut
\* down so that the loops can be explored exhaustively.
n_iters == 3

plot_every == 2

n_confusion == 2

\* The number of predict calls after each training (lines 319-321, 434-436).
n_predict_calls == 3

\* --------------------------------------------------------- the characters

\* string.ascii_letters + " .,;'"
all_letters ==
    << "a", "b", "c", "d", "e", "f", "g", "h", "i", "j", "k", "l", "m",
       "n", "o", "p", "q", "r", "s", "t", "u", "v", "w", "x", "y", "z",
       "A", "B", "C", "D", "E", "F", "G", "H", "I", "J", "K", "L", "M",
       "N", "O", "P", "Q", "R", "S", "T", "U", "V", "W", "X", "Y", "Z",
       " ", ".", ",", ";", "'" >>

n_letters == Len(all_letters)

\* The combining marks of the model (general category Mn).
Marks == {"grave", "acute", "ring", "dot_below"}

\* unicodedata.category(c) != 'Mn'
NotMn(c) == c \notin Marks

\* unicodedata.combining(c): the canonical combining class.
CombiningClass(c) ==
    CASE c \in {"grave", "acute", "ring"} -> 230
      [] c = "dot_below" -> 220
      [] OTHER -> 0

\* The canonical decomposition mapping of one code point (one level):
\* U+00E0, U+015A, U+00E5, U+01FB; every other character maps to itself.
Decomposition(c) ==
    CASE c = "a_grave" -> << "a", "grave" >>
      [] c = "S_acute" -> << "S", "acute" >>
      [] c = "a_ring" -> << "a", "ring" >>
      [] c = "a_ring_acute" -> << "a_ring", "acute" >>
      [] OTHER -> << c >>

RECURSIVE FullDecomposition(_)
\* The decomposition applied until nothing decomposes further.
FullDecomposition(s) ==
    IF s = << >> THEN << >>
    ELSE LET d == Decomposition(Head(s))
         IN  (IF d = << Head(s) >> THEN d ELSE FullDecomposition(d))
             \o FullDecomposition(Tail(s))

RECURSIVE CanonicalOrder(_)
\* The canonical ordering: adjacent marks out of combining-class order are
\* exchanged until none is left (a stable sort of every run of marks).
CanonicalOrder(s) ==
    LET bad == { i \in 1..(Len(s) - 1) :
                    /\ CombiningClass(s[i + 1]) > 0
                    /\ CombiningClass(s[i]) > CombiningClass(s[i + 1]) }
    IN  IF bad = {} THEN s
        ELSE LET i == CHOOSE j \in bad : \A k \in bad : j <= k
             IN  CanonicalOrder([s EXCEPT ![i] = s[i + 1], ![i + 1] = s[i]])

\* unicodedata.normalize('NFD', s)
NFD(s) == CanonicalOrder(FullDecomposition(s))

\* c in all_letters, for a single character c
InAllLetters(c) == \E i \in 1..n_letters : all_letters[i] = c

\* The test of unicodeToAscii's generator expression.
Kept(c) == NotMn(c) /\ InAllLetters(c)

RECURSIVE Filter(_)
Filter(s) ==
    IF s = << >> THEN << >>
    ELSE (IF Kept(Head(s)) THEN << Head(s) >> ELSE << >>) \o Filter(Tail(s))

RECURSIVE DropMarks(_)
DropMarks(s) ==
    IF s = << >> THEN << >>
    ELSE (IF NotMn(Head(s)) THEN << Head(s) >> ELSE << >>) \o DropMarks(Tail(s))

\* unicodeToAscii with the two steps exchanged and the alphabet test lost:
\* the marks are dropped from s first and the result is decomposed.
unicodeToAsciiSwapped(s) == NFD(DropMarks(s))

unicodeToAscii(s) == Filter(NFD(s))

\* ---------------------------------------------------------- the encoder

\* str.find of a single character: its 0-based position, or -1.
Find(str, c) ==
    IF \E i \in 1..Len(str) : str[i] = c
    THEN (CHOOSE i \in 1..Len(str) :
             str[i] = c /\ \A j \in 1..(i - 1) : str[j] # c) - 1
    ELSE -1

\* letterToIndex counting from 1, as if "a" = 1.
letterToIndexFromOne(letter) == Find(all_letters, letter) + 1

letterToIndex(letter) == Find(all_letters, letter)

\* torch.zeros(n)
Zeros(n) == [j \in 1..n |-> 0]

\* row[idx] = v on a tensor row: a negative idx counts from the end.
SetItem(row, idx, v) ==
    LET p == IF idx < 0 THEN idx + Len(row) ELSE idx
    IN  [row EXCEPT ![p + 1] = v]

\* A <1 x n_letters> tensor.
letterToTensor(letter) ==
    << SetItem(Zeros(n_letters), letterToIndex(letter), 1) >>

\* A <line_length x 1 x n_letters> tensor.
lineToTensor(line) ==
    [li \in 1..Len(line) |->
        << SetItem(Zeros(n_letters), letterToIndex(line[li]), 1) >>]

\* ------------------------------------------------------ the corpus loader

\* The whitespace str.strip() removes, among the characters of the model.
Whitespace == {" ", "LF"}

RECURSIVE LStrip(_)
LStrip(s) ==
    IF s # << >> /\ Head(s) \in Whitespace THEN LStrip(Tail(s)) ELSE s

RECURSIVE RStrip(_)
RStrip(s) ==
    IF s # << >> /\ s[Len(s)] \in Whitespace
    THEN RStrip(SubSeq(s, 1, Len(s) - 1))
    ELSE s

\* str.strip()
Strip(s) == RStrip(LStrip(s))

RECURSIVE Split(_)
\* str.split('\n'): always at least one piece, the empty string included.
Split(s) ==
    IF \E i \in 1..Len(s) : s[i] = "LF"
    THEN LET i == CHOOSE j \in 1..Len(s) :
                     s[j] = "LF" /\ \A k \in 1..(j - 1) : s[k] # "LF"
         IN  << SubSeq(s, 1, i - 1) >> \o Split(SubSeq(s, i + 1, Len(s)))
    ELSE << s >>

\* readLines, given the text of the file.
readLines(text) ==
    LET lines == Split(Strip(text))
    IN  [i \in 1..Len(lines) |-> unicodeToAscii(lines[i])]

\* The texts of the name files of the model.
TextEnglish == << "a", "b", "LF", "J", "LF" >>
TextSpanish == << "S_acute", "a_grave", "LF" >>
TextDigits == << "J", "LF", "1" >>
TextEmpty == << >>

\* The directories of name files the script is run on: each a sequence of
\* files in the order glob returns them, a file being its base name and text.
Corpora ==
    { << [name |-> "English", text |-> TextEnglish] >>,
      << [name |-> "English", text |-> TextEnglish],
         [name |-> "Spanish", text |-> TextSpanish] >>,
      << [name |-> "Spanish", text |-> TextSpanish],
         [name |-> "Empty", text |-> TextEmpty] >>,
      << [name |-> "Digits", text |-> TextDigits] >> }

\* ------------------------------------------------------------- the state

VARIABLES
    pc,               \* where the script is
    error,            \* "none", or the exception that ended the script
    files,            \* the name files glob finds
    all_categories,   \* list of category names
    category_lines,   \* category -> list of names
    criterion,        \* the module-level name criterion
    category,         \* the sampled category
    line,             \* the sampled name
    category_tensor,  \* <<index of the category>>
    line_tensor,      \* the encoded name
    fwd_input,        \* the parameter line_tensor of train and evaluate
    hidden,           \* the local hidden of train and evaluate
    step,             \* the loop index i of train and evaluate
    output,           \* the output of the forward pass: the local output
                      \* of train, evaluate and predict, and the
                      \* module-level output it is assigned to on return
                      \* (which is read only right after that)
    rnn_updates,      \* how many times the RNN's parameters were updated
    lstm_updates,     \* how many times the LSTM's parameters were updated
    iter,             \* the loop variable of the training loops
    current_loss,     \* the running sum
    all_losses,       \* the RNN loss history
    lstm_losses,      \* the LSTM loss history
    loss_log,         \* history: the loss of every iteration of this loop
    last_train,       \* history: the network and criterion of the last
                      \* training step
    confusion,        \* the confusion matrix
    sampled,          \* history: how often each category was sampled
                      \* while the confusion matrix was filled
    trial,            \* the loop variable of the confusion loop
    caller,           \* who called evaluate: "confusion" or "predict"
    input_line,       \* predict's parameter
    n_predictions,    \* predict's parameter
    predictions,      \* predict's local list
    call,             \* how many predict calls were made
    s,                \* the encoder specification: the input string
    ascii,            \* unicodeToAscii(s)
    ascii2,           \* unicodeToAscii(ascii)
    letter,           \* [letter, index, tensor]: a letter of s encoded
    tensor            \* lineToTensor(s)

corpusVars == << files, all_categories, category_lines >>
sampleVars == << category, line, category_tensor, line_tensor >>
netVars == << fwd_input, hidden, step, output, rnn_updates, lstm_updates >>
loopVars == << iter, current_loss, all_losses, lstm_losses, loss_log,
               last_train >>
evalVars == << confusion, sampled, trial, caller >>
predVars == << input_line, n_predictions, predictions, call >>
encVars == << s, ascii, ascii2, letter, tensor >>

vars == << pc, error, criterion, corpusVars, sampleVars, netVars, loopVars,
           evalVars, predVars, encVars >>

n_categories == Len(all_categories)

\* ---------------------------------------------------------- the networks

\* The values a log-probability takes in the model.
LogProbs == {-1, 0}

\* The values a raw logit takes in the model.
Logits == {0, 1}

\* The values a loss takes in the model.
Losses == {0, 1}

\* A name that is not bound yet (the local output before the first step).
Unbound == [bound |-> FALSE, scores |-> << >>, input |-> << >>,
            hidden |-> << >>]

\* torch.zeros(1, hidden_size).  The weights are not modelled, so a hidden
\* state is the sequence of the inputs folded into it since the zero vector,
\* the freest reading of hidden = i2h(cat(input, hidden)).
ZeroHidden == << >>

initHidden == ZeroHidden

\* RNN.forward handing back the hidden state it was given.
RNNForwardSameHidden(input, h, scores) ==
    [output |-> [bound |-> TRUE, scores |-> scores, input |-> input,
                 hidden |-> h],
     hidden |-> h]

\* RNN.forward: the output (its scores, and what it was computed from) and
\* the next hidden state.
RNNForward(input, h, scores) ==
    [output |-> [bound |-> TRUE, scores |-> scores, input |-> input,
                 hidden |-> h],
     hidden |-> Append(h, input)]

\* LSTM.forward over a whole, non-empty sequence x.
LSTMForward(x, scores) ==
    [bound |-> TRUE, scores |-> scores, input |-> x, hidden |-> ZeroHidden]

\* nn.NLLLoss()
NLLLoss == "NLLLoss"

\* nn.CrossEntropyLoss()
CrossEntropyLoss == "CrossEntropyLoss"

\* The losses criterion(output, category_tensor) can give: NLLLoss is minus
\* the score of the target; CrossEntropyLoss is logsumexp(scores) minus the
\* score of the target, some loss >= 0.
Criterion(crit, out, target) ==
    IF crit = NLLLoss THEN {0 - out.scores[target[1] + 1]} ELSE Losses

\* The criterion bound before RNN training (line 177).
RNNCriterion == NLLLoss

\* Line 352 as its commented-out neighbour, line 351.
LSTMCriterionNLL == NLLLoss

\* The criterion bound before LSTM training (line 352).
LSTMCriterion == CrossEntropyLoss

\* The indices output.topk(1) can give: those of a greatest score.
ArgMax(scores) ==
    { i - 1 : i \in { j \in 1..Len(scores) :
                        \A m \in 1..Len(scores) : scores[m] <= scores[j] } }

\* The index lists output.topk(k, 1, True) can give, for k <= Len(scores):
\* k different indices, by score descending, none left out that scores more.
TopK(scores, k) ==
    { p \in [1..k -> 0..(Len(scores) - 1)] :
        /\ \A i, j \in 1..k : i # j => p[i] # p[j]
        /\ \A i \in 1..(k - 1) : scores[p[i] + 1] >= scores[p[i + 1] + 1]
        /\ \A m \in 0..(Len(scores) - 1) :
              (\A i \in 1..k : p[i] # m) =>
                  \A i \in 1..k : scores[m + 1] <= scores[p[i] + 1] }

\* ------------------------------------------------------------ fractions

\* x / y of two numbers, exactly: <<x, y>>.  <<0, 0>> is NaN.
Div(x, y) == << x, y >>

IsNaN(f) == f[1] = 0 /\ f[2] = 0

IsOne(f) == f[2] # 0 /\ f[1] = f[2]

IsZero(f) == f[2] # 0 /\ f[1] = 0

RECURSIVE Sum(_)
Sum(q) == IF q = << >> THEN 0 ELSE Head(q) + Sum(Tail(q))

\* ------------------------------------------------- the training loop tail

\* Lines 237-239 and 406-408 without the reset of the running sum.
PlotStepNoReset(cur, hist, it) ==
    IF it % plot_every = 0
    THEN [current_loss |-> cur, losses |-> Append(hist, Div(cur, plot_every))]
    ELSE [current_loss |-> cur, losses |-> hist]

\* Lines 237-239 and 406-408: every plot_every iterations the average is
\* appended and the running sum reset.
PlotStep(cur, hist, it) ==
    IF it % plot_every = 0
    THEN [current_loss |-> 0, losses |-> Append(hist, Div(cur, plot_every))]
    ELSE [current_loss |-> cur, losses |-> hist]

\* randomChoice(l): any element of a non-empty list.
randomChoice(l) == { l[i + 1] : i \in 0..(Len(l) - 1) }

\* list.index
Index(l, x) == (CHOOSE i \in 1..Len(l) : l[i] = x /\ \A j \in 1..(i - 1) : l[j] # x) - 1


\* ------------------------------------------------------------ the script

\* What the names hold before the script binds them.
Unset ==
    /\ error = "none"
    /\ all_categories = << >>
    /\ category_lines = << >>
    /\ criterion = "unbound"
    /\ category = ""
    /\ line = << >>
    /\ category_tensor = << >>
    /\ line_tensor = << >>
    /\ fwd_input = << >>
    /\ hidden = ZeroHidden
    /\ output = Unbound
    /\ step = 0
    /\ rnn_updates = 0
    /\ lstm_updates = 0
    /\ iter = 0
    /\ current_loss = 0
    /\ all_losses = << >>
    /\ lstm_losses = << >>
    /\ loss_log = << >>
    /\ last_train = [net |-> "none", criterion |-> "none"]
    /\ confusion = << >>
    /\ sampled = << >>
    /\ trial = 0
    /\ caller = "none"
    /\ input_line = << >>
    /\ n_predictions = 0
    /\ predictions = << >>
    /\ call = 0
    /\ ascii = << >>
    /\ ascii2 = << >>
    /\ letter = << >>
    /\ tensor = << >>

Init ==
    /\ pc = "load"
    /\ files \in Corpora
    /\ s = << >>
    /\ Unset

\* The script stops with an exception.
Raise(e) ==
    /\ pc' = "error"
    /\ error' = e

\* Lines 45-51: every file's names are read and normalized.
LoadCorpus ==
    /\ pc = "load"
    /\ all_categories' = [i \in 1..Len(files) |-> files[i].name]
    /\ category_lines' =
           [c \in { files[i].name : i \in 1..Len(files) } |->
               readLines((CHOOSE f \in { files[i] : i \in 1..Len(files) } :
                             f.name = c).text)]
    /\ pc' = "setup"
    /\ UNCHANGED << error, criterion, files, sampleVars, netVars, loopVars,
                    evalVars, predVars, encVars >>

\* Lines 125, 177, 213, 214: the RNN, its criterion, the empty history.
StartRNNTraining ==
    /\ pc = "setup"
    /\ criterion' = RNNCriterion
    /\ current_loss' = 0
    /\ all_losses' = << >>
    /\ loss_log' = << >>
    /\ iter' = 0
    /\ pc' = "rnn_loop"
    /\ UNCHANGED << error, corpusVars, sampleVars, netVars, lstm_losses,
                    last_train, evalVars, predVars, encVars >>

\* randomTrainingExample (lines 162-167).
Sample ==
    \E c \in randomChoice(all_categories) :
        \E l \in randomChoice(category_lines[c]) :
            /\ category' = c
            /\ line' = l
            /\ category_tensor' = << Index(all_categories, c) >>
            /\ line_tensor' = lineToTensor(l)

\* Lines 182-184 and 264: the forward pass starts.
BeginForward(x) ==
    /\ fwd_input' = x
    /\ hidden' = initHidden
    /\ output' = Unbound
    /\ step' = 0

\* One pass of the loop of lines 186-187 and 266-267.
ForwardStep ==
    /\ step < Len(fwd_input)
    /\ \E scores \in [1..n_categories -> LogProbs] :
          LET r == RNNForward(fwd_input[step + 1], hidden, scores)
          IN  /\ output' = r.output
              /\ hidden' = r.hidden
    /\ step' = step + 1
    /\ UNCHANGED fwd_input

\* train and evaluate return: their locals are gone.
EndForward ==
    /\ fwd_input' = << >>
    /\ hidden' = ZeroHidden
    /\ step' = 0

\* Lines 225-227 up to the loop of train.
TrainBegin ==
    /\ pc = "rnn_loop"
    /\ iter < n_iters
    /\ iter' = iter + 1
    /\ Sample
    /\ BeginForward(line_tensor')
    /\ pc' = "train_fwd"
    /\ UNCHANGED << error, criterion, corpusVars, rnn_updates, lstm_updates,
                    current_loss, all_losses, lstm_losses, loss_log,
                    last_train, evalVars, predVars, encVars >>

\* Line 187.
TrainStep ==
    /\ pc = "train_fwd"
    /\ ForwardStep
    /\ UNCHANGED << pc, error, criterion, corpusVars, sampleVars,
                    rnn_updates, lstm_updates, loopVars, evalVars, predVars,
                    encVars >>

\* Lines 189-196 and 228-239: the loss, the update, the running sum and
\* the history.
TrainEnd ==
    /\ pc = "train_fwd"
    /\ step = Len(fwd_input)
    /\ IF ~output.bound
       THEN /\ Raise("UnboundLocalError")
            /\ UNCHANGED << fwd_input, hidden, step, rnn_updates,
                            current_loss, all_losses, loss_log, last_train >>
       ELSE \E loss \in Criterion(criterion, output, category_tensor) :
               LET r == PlotStep(current_loss + loss, all_losses, iter)
               IN  /\ rnn_updates' = rnn_updates + 1
                   /\ current_loss' = r.current_loss
                   /\ all_losses' = r.losses
                   /\ loss_log' = Append(loss_log, loss)
                   /\ last_train' = [net |-> "rnn", criterion |-> criterion]
                   /\ EndForward
                   /\ pc' = "rnn_loop"
                   /\ UNCHANGED error
    /\ UNCHANGED << criterion, corpusVars, sampleVars, output, lstm_updates,
                    iter, lstm_losses, evalVars, predVars, encVars >>

\* Line 259: the loop of lines 225-239 is over.
StartConfusion ==
    /\ pc = "rnn_loop"
    /\ iter = n_iters
    /\ confusion' = [i \in 1..n_categories |-> Zeros(n_categories)]
    /\ sampled' = Zeros(n_categories)
    /\ trial' = 0
    /\ loss_log' = << >>
    /\ pc' = "confusion"
    /\ UNCHANGED << error, criterion, corpusVars, sampleVars, netVars, iter,
                    current_loss, all_losses, lstm_losses, last_train,
                    caller, predVars, encVars >>

\* Lines 272-274 up to the loop of evaluate.
ConfusionBegin ==
    /\ pc = "confusion"
    /\ trial < n_confusion
    /\ Sample
    /\ BeginForward(line_tensor')
    /\ caller' = "confusion"
    /\ pc' = "eval_fwd"
    /\ UNCHANGED << error, criterion, corpusVars, rnn_updates, lstm_updates,
                    loopVars, confusion, sampled, trial, predVars, encVars >>

\* Line 267.
EvalStep ==
    /\ pc = "eval_fwd"
    /\ ForwardStep
    /\ UNCHANGED << pc, error, criterion, corpusVars, sampleVars,
                    rnn_updates, lstm_updates, loopVars, evalVars, predVars,
                    encVars >>

\* Lines 269 and 275-277: evaluate returns, the guess is counted.
ConfusionRecord ==
    /\ pc = "eval_fwd"
    /\ caller = "confusion"
    /\ step = Len(fwd_input)
    /\ IF ~output.bound
       THEN /\ Raise("UnboundLocalError")
            /\ UNCHANGED << fwd_input, hidden, step, confusion, sampled,
                            trial, caller >>
       ELSE \E guess_i \in ArgMax(output.scores) :
               LET category_i == Index(all_categories, category)
               IN  /\ confusion' =
                          [confusion EXCEPT
                              ![category_i + 1][guess_i + 1] = @ + 1]
                   /\ sampled' = [sampled EXCEPT ![category_i + 1] = @ + 1]
                   /\ trial' = trial + 1
                   /\ EndForward
                   /\ caller' = "none"
                   /\ pc' = "confusion"
                   /\ UNCHANGED error
    /\ UNCHANGED << criterion, corpusVars, sampleVars, output, rnn_updates,
                    lstm_updates, loopVars, predVars, encVars >>

\* Lines 280-281: every row is divided by its sum.
NormalizeConfusion ==
    /\ pc = "confusion"
    /\ trial = n_confusion
    /\ confusion' =
           [i \in 1..n_categories |->
               [j \in 1..n_categories |->
                   Div(confusion[i][j], Sum(confusion[i]))]]
    /\ call' = 0
    /\ pc' = "predict_rnn"
    /\ UNCHANGED << error, criterion, corpusVars, sampleVars, netVars,
                    loopVars, sampled, trial, caller, input_line,
                    n_predictions, predictions, encVars >>

\* The strings predict is tried on.
PredictInputs == { << "Y", "u" >>, << "a", "1" >>, << >> }

\* Lines 310-317 and 425-432, given the output and k <= n_categories: the
\* lists of the k best (value, category) pairs.
TopPredictions(out, k) ==
    { [i \in 1..k |-> << out.scores[p[i] + 1], all_categories[p[i] + 1] >>] :
        p \in TopK(out.scores, k) }

\* Lines 304-307 (the RNN's predict) up to the loop of evaluate.
PredictBegin ==
    /\ pc = "predict_rnn"
    /\ call < n_predict_calls
    /\ \E inp \in PredictInputs, k \in 1..MaxK :
          /\ input_line' = inp
          /\ n_predictions' = k
          /\ BeginForward(lineToTensor(inp))
    /\ predictions' = << >>
    /\ caller' = "predict"
    /\ pc' = "eval_fwd"
    /\ UNCHANGED << error, criterion, corpusVars, sampleVars, rnn_updates,
                    lstm_updates, loopVars, confusion, sampled, trial, call,
                    encVars >>

\* Lines 269 and 310-317: evaluate returns and the top k are collected;
\* topk raises when k is out of range.
PredictEnd ==
    /\ pc = "eval_fwd"
    /\ caller = "predict"
    /\ step = Len(fwd_input)
    /\ IF ~output.bound
       THEN /\ Raise("UnboundLocalError")
            /\ UNCHANGED << fwd_input, hidden, step, predictions, caller >>
       ELSE IF n_predictions > n_categories
       THEN /\ Raise("RuntimeError")
            /\ EndForward
            /\ UNCHANGED << predictions, caller >>
       ELSE /\ predictions' \in TopPredictions(output, n_predictions)
            /\ EndForward
            /\ caller' = "none"
            /\ pc' = "predict_rnn_return"
            /\ UNCHANGED error
    /\ UNCHANGED << criterion, corpusVars, sampleVars, output, rnn_updates,
                    lstm_updates, loopVars, confusion, sampled, trial,
                    input_line, n_predictions, call, encVars >>

\* predict returns (nothing): its locals are gone.
EndPredict ==
    /\ input_line' = << >>
    /\ n_predictions' = 0
    /\ predictions' = << >>
    /\ output' = Unbound
    /\ call' = call + 1

\* The end of the RNN's predict.
PredictReturn ==
    /\ pc = "predict_rnn_return"
    /\ EndPredict
    /\ pc' = "predict_rnn"
    /\ UNCHANGED << error, criterion, corpusVars, sampleVars, fwd_input,
                    hidden, step, rnn_updates, lstm_updates, loopVars,
                    evalVars, encVars >>

\* Lines 350-383: the LSTM, the rebound criterion, the fresh history.
StartLSTMTraining ==
    /\ pc = "predict_rnn"
    /\ call = n_predict_calls
    /\ criterion' = LSTMCriterion
    /\ current_loss' = 0
    /\ lstm_losses' = << >>
    /\ loss_log' = << >>
    /\ iter' = 0
    /\ pc' = "lstm_loop"
    /\ UNCHANGED << error, corpusVars, sampleVars, netVars, all_losses,
                    last_train, evalVars, predVars, encVars >>

\* Lines 394-408: one iteration, train_lstm (lines 356-369) included.  The
\* LSTM raises on a sequence of length 0.
LSTMTrain ==
    /\ pc = "lstm_loop"
    /\ iter < n_iters
    /\ iter' = iter + 1
    /\ Sample
    /\ IF line_tensor' = << >>
       THEN /\ Raise("RuntimeError")
            /\ UNCHANGED << output, lstm_updates, current_loss, lstm_losses,
                            loss_log, last_train >>
       ELSE \E scores \in [1..n_categories -> Logits] :
               LET out == LSTMForward(line_tensor', scores)
               IN  \E loss \in Criterion(criterion, out, category_tensor') :
                      LET r == PlotStep(current_loss + loss, lstm_losses,
                                        iter')
                      IN  /\ output' = out
                          /\ lstm_updates' = lstm_updates + 1
                          /\ current_loss' = r.current_loss
                          /\ lstm_losses' = r.losses
                          /\ loss_log' = Append(loss_log, loss)
                          /\ last_train' =
                                 [net |-> "lstm", criterion |-> criterion]
                          /\ UNCHANGED << pc, error >>
    /\ UNCHANGED << criterion, corpusVars, fwd_input, hidden, step,
                    rnn_updates, all_losses, evalVars, predVars, encVars >>

\* The loop of lines 394-408 is over.
EndLSTMTraining ==
    /\ pc = "lstm_loop"
    /\ iter = n_iters
    /\ loss_log' = << >>
    /\ call' = 0
    /\ pc' = "predict_lstm"
    /\ UNCHANGED << error, criterion, corpusVars, sampleVars, netVars, iter,
                    current_loss, all_losses, lstm_losses, last_train,
                    evalVars, input_line, n_predictions, predictions,
                    encVars >>

\* Lines 419-432: the LSTM's predict, up to its return.
PredictLSTM ==
    /\ pc = "predict_lstm"
    /\ call < n_predict_calls
    /\ \E inp \in PredictInputs, k \in 1..MaxK :
          /\ input_line' = inp
          /\ n_predictions' = k
          /\ IF inp = << >>
             THEN /\ Raise("RuntimeError")
                  /\ UNCHANGED << output, predictions >>
             ELSE \E scores \in [1..n_categories -> Logits] :
                     /\ output' = LSTMForward(lineToTensor(inp), scores)
                     /\ IF k > n_categories
                        THEN /\ Raise("RuntimeError")
                             /\ predictions' = << >>
                        ELSE /\ predictions' \in TopPredictions(output', k)
                             /\ pc' = "predict_lstm_return"
                             /\ UNCHANGED error
    /\ UNCHANGED << criterion, corpusVars, sampleVars, fwd_input, hidden,
                    step, rnn_updates, lstm_updates, loopVars, evalVars,
                    call, encVars >>

\* The end of the LSTM's predict.
PredictLSTMReturn ==
    /\ pc = "predict_lstm_return"
    /\ EndPredict
    /\ pc' = "predict_lstm"
    /\ UNCHANGED << error, criterion, corpusVars, sampleVars, fwd_input,
                    hidden, step, rnn_updates, lstm_updates, loopVars,
                    evalVars, encVars >>

\* The script ends.
Finish ==
    /\ pc = "predict_lstm"
    /\ call = n_predict_calls
    /\ pc' = "done"
    /\ UNCHANGED << error, criterion, corpusVars, sampleVars, netVars,
                    loopVars, evalVars, predVars, encVars >>

Next ==
    \/ LoadCorpus
    \/ StartRNNTraining
    \/ TrainBegin
    \/ TrainStep
    \/ TrainEnd
    \/ StartConfusion
    \/ ConfusionBegin
    \/ EvalStep
    \/ ConfusionRecord
    \/ NormalizeConfusion
    \/ PredictBegin
    \/ PredictEnd
    \/ PredictReturn
    \/ StartLSTMTraining
    \/ LSTMTrain
    \/ EndLSTMTraining
    \/ PredictLSTM
    \/ PredictLSTMReturn
    \/ Finish

Spec == Init /\ [][Next]_vars


\* ------------------------------------------------- the encoder on its own

\* The characters of the strings the encoder functions are applied to:
\* alphabet characters, a digit, precomposed letters (U+00E0, U+01FB),
\* U+0142 (which does not decompose) and combining marks.
InputChars ==
    { "a", "J", "'", "1", "a_grave", "a_ring_acute", "l_stroke", "acute",
      "dot_below" }

\* The strings of at most n characters.
Strings(n) == UNION { [1..k -> InputChars] : k \in 0..n }

InitEncoder ==
    /\ pc = "enc_start"
    /\ files = << >>
    /\ s \in Strings(MaxLen)
    /\ Unset

\* unicodeToAscii(s)
EncNormalize ==
    /\ pc = "enc_start"
    /\ ascii' = unicodeToAscii(s)
    /\ pc' = "enc_normalized"
    /\ UNCHANGED << error, criterion, corpusVars, sampleVars, netVars,
                    loopVars, evalVars, predVars, s, ascii2, letter, tensor >>

\* unicodeToAscii of the result
EncNormalizeAgain ==
    /\ pc = "enc_normalized"
    /\ ascii2' = unicodeToAscii(ascii)
    /\ pc' = "enc_renormalized"
    /\ UNCHANGED << error, criterion, corpusVars, sampleVars, netVars,
                    loopVars, evalVars, predVars, s, ascii, letter, tensor >>

\* letterToIndex and letterToTensor of a letter of s
EncLetter ==
    /\ pc = "enc_start"
    /\ \E i \in 1..Len(s) :
          letter' = [letter |-> s[i], index |-> letterToIndex(s[i]),
                     tensor |-> letterToTensor(s[i])]
    /\ pc' = "enc_letter"
    /\ UNCHANGED << error, criterion, corpusVars, sampleVars, netVars,
                    loopVars, evalVars, predVars, s, ascii, ascii2, tensor >>

\* lineToTensor(s)
EncLine ==
    /\ pc = "enc_start"
    /\ tensor' = lineToTensor(s)
    /\ pc' = "enc_line"
    /\ UNCHANGED << error, criterion, corpusVars, sampleVars, netVars,
                    loopVars, evalVars, predVars, s, ascii, ascii2, letter >>

NextEncoder ==
    \/ EncNormalize
    \/ EncNormalizeAgain
    \/ EncLetter
    \/ EncLine

SpecEncoder == InitEncoder /\ [][NextEncoder]_vars

\* -------------------------------------------------------------- the claims

Min(a, b) == IF a <= b THEN a ELSE b

\* The sum of a sequence of fractions.
RECURSIVE FracSum(_)
FracSum(q) ==
    IF q = << >> THEN << 0, 1 >>
    ELSE LET f == Head(q)
             g == FracSum(Tail(q))
         IN  << f[1] * g[2] + g[1] * f[2], f[2] * g[2] >>

OutsideAlphabet(str) == \E i \in 1..Len(str) : ~InAllLetters(str[i])

\* C1: every predict call, whatever the input string and the count k >= 1,
\* ends by returning exactly min(k, n_categories) (score, category) entries
\* whose scores do not increase along the list.
C1_PredictReturnsTopK ==
    (n_predictions > 0 /\ pc \in {"predict_rnn_return", "predict_lstm_return",
                                  "error"}) =>
        /\ error = "none"
        /\ Len(predictions) = Min(n_predictions, n_categories)
        /\ \A i \in 1..(Len(predictions) - 1) :
              predictions[i][1] >= predictions[i + 1][1]

\* C2: the forward pass over a name of the corpus (a name normalization
\* produced) completes with an output of n_categories scores: the loop of
\* train and of evaluate leaves output bound, train_lstm returns such an
\* output, and no exception ends the script outside predict.
C2_ForwardPassCompletes ==
    /\ (/\ pc \in {"train_fwd", "eval_fwd"}
        /\ caller # "predict"
        /\ step = Len(fwd_input)) =>
           (output.bound /\ Len(output.scores) = n_categories)
    /\ (pc = "lstm_loop" /\ iter > 0) =>
           (output.bound /\ Len(output.scores) = n_categories)
    /\ ~(pc = "error" /\ n_predictions = 0)

\* C3: for a string s of alphabet characters, lineToTensor(s) has one
\* <1 x n_letters> vector per character, in order, and the vector of
\* character c holds a 1 at index letterToIndex(c), the position of c in
\* all_letters, and 0 everywhere else.
C3_LineToTensorOneHot ==
    (pc = "enc_line" /\ ~OutsideAlphabet(s)) =>
        /\ Len(tensor) = Len(s)
        /\ \A li \in 1..Len(s) :
              /\ Len(tensor[li]) = 1
              /\ Len(tensor[li][1]) = n_letters
              /\ letterToIndex(s[li]) \in 0..(n_letters - 1)
              /\ \A j \in 1..n_letters :
                    /\ tensor[li][1][j] \in {0, 1}
                    /\ tensor[li][1][j] = 1 <=> all_letters[j] = s[li]
                    /\ tensor[li][1][j] = 1 <=> j - 1 = letterToIndex(s[li])

\* C3's case: a string of three alphabet characters was encoded.
C3_Witness ==
    /\ pc = "enc_line"
    /\ Len(s) = 3
    /\ ~OutsideAlphabet(s)
    /\ s[1] # s[2]

\* C4: a character outside the alphabet makes the encoder fail: no index of
\* an alphabet character comes back from letterToIndex, no vector with a 1
\* in it from letterToTensor or lineToTensor.
C4_OutsideAlphabetFails ==
    /\ (pc = "enc_letter" /\ ~InAllLetters(letter.letter)) =>
           /\ error # "none"
           /\ \A j \in 1..n_letters : letter.tensor[1][j] = 0
    /\ (pc = "enc_line" /\ OutsideAlphabet(s)) =>
           /\ error # "none"
           /\ \A li \in 1..Len(tensor) :
                 ~InAllLetters(s[li]) =>
                     \A j \in 1..n_letters : tensor[li][1][j] = 0

\* C5: a category whose file holds no names is rejected at load time, or
\* handled so that every name that can be drawn for it is a non-empty name.
C5_EmptyCategoryRejected ==
    pc # "load" =>
        \A i \in 1..Len(files) :
            Strip(files[i].text) = << >> =>
                \/ \A k \in 1..n_categories : all_categories[k] # files[i].name
                \/ \A l \in randomChoice(category_lines[files[i].name]) :
                      l # << >>

\* C6: once every row of the confusion matrix is divided by its sum, the
\* row of a category that was sampled sums to 1 and the row of a category
\* that was never sampled is all zero.
C6_ConfusionRowsNormalized ==
    (pc = "predict_rnn" /\ call = 0) =>
        \A i \in 1..n_categories :
            /\ sampled[i] > 0 => IsOne(FracSum(confusion[i]))
            /\ sampled[i] = 0 =>
                  \A j \in 1..n_categories : IsZero(confusion[i][j])

\* C7: normalization is idempotent: unicodeToAscii(unicodeToAscii(s)) is
\* unicodeToAscii(s), for every string s.
C7_NormalizationIdempotent ==
    pc = "enc_renormalized" => ascii2 = ascii

\* C7's case: a string with a precomposed letter and a mark, part of which
\* survives, was normalized twice.
C7_Witness ==
    /\ pc = "enc_renormalized"
    /\ \E i \in 1..Len(s) : s[i] \in {"a_grave", "a_ring_acute"}
    /\ \E i \in 1..Len(s) : s[i] \in Marks
    /\ ascii # << >>
    /\ ascii # s

\* C8: in train and evaluate the hidden state starts as the zero vector and
\* after i steps is the fold of the first i characters, in order, and of
\* nothing else; the output of step i is computed from character i and the
\* hidden state of step i - 1; the output returned is that of the last
\* character.
C8_HiddenStateThreaded ==
    /\ pc \in {"train_fwd", "eval_fwd"} =>
          /\ step \in 0..Len(fwd_input)
          /\ hidden = SubSeq(fwd_input, 1, step)
          /\ step = 0 => (~output.bound /\ hidden = ZeroHidden)
          /\ step > 0 =>
                /\ output.bound
                /\ output.input = fwd_input[step]
                /\ output.hidden = SubSeq(fwd_input, 1, step - 1)
    /\ (\/ pc = "rnn_loop" /\ iter > 0
        \/ pc = "confusion" /\ trial > 0) =>
          /\ output.bound
          /\ output.input = line_tensor[Len(line_tensor)]
          /\ output.hidden = SubSeq(line_tensor, 1, Len(line_tensor) - 1)
    /\ pc = "predict_rnn_return" =>
          LET x == lineToTensor(input_line)
          IN  /\ output.bound
              /\ output.input = x[Len(x)]
              /\ output.hidden = SubSeq(x, 1, Len(x) - 1)

\* C8's case: a second name, of two characters, has gone through both of
\* its steps after another name was trained on.
C8_Witness ==
    /\ pc = "train_fwd"
    /\ rnn_updates > 0
    /\ step = 2
    /\ Len(fwd_input) = 2

\* The history and running sum the loop must hold after the iterations
\* whose losses are log.
LossHistoryOf(log, hist, cur) ==
    LET i == Len(log)
    IN  /\ Len(hist) = i \div plot_every
        /\ \A j \in 1..Len(hist) :
              hist[j] = Div(Sum(SubSeq(log, (j - 1) * plot_every + 1,
                                       j * plot_every)), plot_every)
        /\ cur = Sum(SubSeq(log, (i \div plot_every) * plot_every + 1, i))

\* C9: in both training loops, after iteration i the history holds
\* floor(i / plot_every) entries, entry j is the sum of the losses of
\* iterations (j-1)*plot_every+1 .. j*plot_every divided by plot_every, and
\* the running sum is the sum of the losses since the last multiple of
\* plot_every; the LSTM loop starts from 0 and an empty history of its own.
C9_LossHistory ==
    /\ pc = "rnn_loop" =>
          /\ Len(loss_log) = iter
          /\ LossHistoryOf(loss_log, all_losses, current_loss)
    /\ pc = "train_fwd" =>
          /\ Len(loss_log) = iter - 1
          /\ LossHistoryOf(loss_log, all_losses, current_loss)
    /\ pc = "lstm_loop" =>
          /\ Len(loss_log) = iter
          /\ LossHistoryOf(loss_log, lstm_losses, current_loss)

\* C9's case: the LSTM loop is past an append with a loss in the running
\* sum, after an RNN loop that appended a non-zero average.
C9_Witness ==
    /\ pc = "lstm_loop"
    /\ iter > plot_every
    /\ lstm_losses # << >>
    /\ lstm_losses[1][1] > 0
    /\ current_loss > 0
    /\ all_losses # << >>
    /\ all_losses[1][1] > 0

\* C10: every RNN training step computes its loss with NLLLoss and every
\* LSTM training step with CrossEntropyLoss: criterion is NLLLoss all
\* through the RNN loop and CrossEntropyLoss all through the LSTM loop.
C10_CriterionPerNetwork ==
    /\ last_train.net = "rnn" => last_train.criterion = NLLLoss
    /\ last_train.net = "lstm" => last_train.criterion = CrossEntropyLoss
    /\ pc \in {"rnn_loop", "train_fwd"} => criterion = NLLLoss
    /\ pc = "lstm_loop" => criterion = CrossEntropyLoss

\* C10's case: an LSTM training step was made after RNN training steps.
C10_Witness ==
    /\ last_train.net = "lstm"
    /\ rnn_updates > 0
    /\ lstm_updates > 0

=============================================================================
